---- MODULE Spec2Model ----
(***************************************************************************)
(* BossScraper (llm_crawler/ri_boss_data.py): the paginated, de-duplicating *)
(* crawl loop run(), the persistence path save_data -> save_to_database ->  *)
(* JobDatabase, and the page-session operations set_proxy and quit.         *)
(* BossZPCrawler (llm_crawler/r1_boss_data.py): execute_crawl with its      *)
(* retrying page fetch. WebDriverManager, ZhilianScraper and the Zhilian    *)
(* side of the dashboard (llm_crawler/pages/o1_zhilian_ui.py).              *)
(*                                                                          *)
(* The scraper is single-threaded: one call is in progress at a time, and   *)
(* pc is the position inside the call in progress ("idle" between calls).   *)
(* The site, the browser and the SQLite store are the environment: what     *)
(* they answer is chosen nondeterministically from small sets.              *)
(***************************************************************************)
EXTENDS Integers, Sequences, FiniteSets, TLC

\* ------------------------------------------------------------------ bounds
MaxItems == 4        \* jobList elements the site delivers to one BossScraper
MaxRuns == 2         \* run() calls on one BossScraper
MaxRows == 2         \* rows of a DataFrame handed to save_to_database directly
MaxSaves == 2        \* direct save_to_database calls
MaxSessions == 2     \* page sessions one BossScraper constructs
MaxPairItems == 2    \* jobList elements delivered to each of two concurrent BossScrapers
MaxZpItems == 3      \* jobList elements the site delivers to one BossZPCrawler
MaxZpPages == 3      \* largest max_pages given to execute_crawl
MaxDrivers == 2      \* WebDriver instances that exist in one dashboard session
MaxUiPages == 2      \* largest page count the Zhilian search reports

\* ------------------------------------------------------------ input values
\* a jobName that is a JSON array: a tuple holding it cannot be hashed
UNHASHABLE == "[list]"

\* one element of zpData.jobList: a JSON object (its other keys are absent)
RawJobs ==
    {[jobName |-> "A", brandName |-> "X"],
     [jobName |-> "B", brandName |-> "Y"],
     [jobName |-> "A", brandName |-> "Y"],
     [jobName |-> UNHASHABLE, brandName |-> "X"]}

SeqsUpTo(S, n) == UNION {[1..k -> S] : k \in 0..n}

\* a response body: zpData is absent, null or an object; inside the object
\* jobList is absent, null or a list
Payloads(n) ==
    {[zpData |-> "object", jobList |-> "list", items |-> s] :
        s \in SeqsUpTo(RawJobs, n)}
        \cup {[zpData |-> z, jobList |-> j, items |-> <<>>] :
                z \in {"absent", "null"}, j \in {"absent"}}
        \cup {[zpData |-> "object", jobList |-> j, items |-> <<>>] :
                j \in {"absent", "null"}}

NoData == [zpData |-> "absent", jobList |-> "absent", items |-> <<>>]

\* proxy descriptors: None and an "ip:port" string
Proxies == {"None", "10.0.0.1:8080"}

\* two BossScraper instances alive in one process (two dashboard sessions)
Crawlers == {1, 2}

\* the table the dashboard saves to, and the tables a direct caller names
UiTables == {"jobs"}
TableNames == {"jobs", "boss"}

\* ------------------------------------------------------------------- state
\* the WebDriver instances of the Zhilian dashboard; None is NoDriver
Drivers == 1..MaxDrivers
NoDriver == 0
NoCookies == <<>>

\* how a driver.quit() call can go: it ends the browser, it raises and the
\* browser stays as it was, or it raises after the browser has ended
QuitOutcomes == {"ok", "raised", "raised_closed"}

VARIABLES
    pc,                  \* position inside the call in progress, "idle" between calls
    call,                \* the call in progress, or the last one made
    raised,              \* the exception that call propagated to its caller
    all_jobs,            \* self.all_jobs
    seen_jobs,           \* self.seen_jobs
    page,                \* self.page: the session it refers to is "live" or "quit"
    proxy,               \* self.proxy
    tables,              \* store: the tables that exist
    db_rows,             \* store: the rows of each table, in insertion order
    page_number,         \* run(): local page_number
    previous_job_count,  \* run(): local previous_job_count
    data,                \* run(): body returned by fetch_data
    page_jobs,           \* run(): parse_jobs(data)
    idx,                 \* run(): position of the for loop in page_jobs
    outcome,             \* how the last run() ended
    error,               \* the exception that ended the last run()
    df,                  \* save_to_database(): the DataFrame, a row per record
    table_name,          \* save_to_database(): table_name
    row,                 \* save_to_database(): position of the loop over df
    runs,                \* run() calls started
    items,               \* jobList elements delivered so far
    saves,               \* direct save_to_database calls started
    pages,               \* history: key sequences of the pages parsed in this run
    fetched,             \* history: page numbers passed to fetch_data in this run
    all0,                \* history: all_jobs when this run() was called
    attempts,            \* history: rows whose try block was entered in this save
    insert_calls,        \* history: insert_job calls of this save
    create_calls,        \* history: create_table calls of this save
    insert_failed,       \* history: an insert_job call of this save raised
    rows0,               \* history: db_rows when this save began
    listed,              \* history: what get_table_names() answered in this save
    page_id,             \* self.page: which session it refers to (1 is __init__'s)
    page_proxy,          \* the proxy option the session of self.page was built with
    listening,           \* listen.start was called on the session of self.page
    orphans,             \* live sessions this BossScraper built and no longer refers to
    teardown,            \* history: how page.quit() went in the last set_proxy
    asked,               \* history: the descriptor the last set_proxy was given
    crawlers,            \* the BossScraper instances running side by side, and
                         \* for each the locals of its run()
    zp_pc,               \* BossZPCrawler: position inside execute_crawl
    zp_driver,           \* BossZPCrawler.driver: "live" or "quit"
    zp_seen_jobs,        \* BossZPCrawler.seen_jobs
    max_pages,           \* execute_crawl(): max_pages
    current_page,        \* execute_crawl(): current_page
    zp_all_jobs,         \* execute_crawl(): local all_jobs
    raw_data,            \* execute_crawl(): what _fetch_page_data returned
    attempt,             \* _fetch_page_data(): iterations of its for loop begun
    zp_raised,           \* the exception execute_crawl propagated
    zp_items,            \* jobList elements delivered so far
    tries,               \* history: how each attempt for this page went
    requested,           \* history: the pages passed to _fetch_page_data
    zp_pages,            \* history: the jobList of every page that had one
    csv_calls,           \* history: the arguments of the _save_to_csv calls
    drv,                 \* every WebDriver instance: "unmade", "live" or "quit"
    wdm_pc,              \* WebDriverManager: "idle", or "init" inside init_driver
    wdm_driver,          \* WebDriverManager._driver (NoDriver is None)
    wdm_cookies,         \* WebDriverManager._cookies
    init_retries,        \* WebDriverManager.init_retries
    wdm_op,              \* history: the last WebDriverManager operation
    held0,               \* history: _driver when that operation began
    quit_log,            \* history: the drivers that operation called quit() on
    call_failed,         \* history: failed attempts of this init_driver call
    wdm_ret,             \* history: what the last init_driver returned
    ss_driver,           \* st.session_state.driver
    zhilian_login_status,\* st.session_state.zhilian_login_status
    generated_link,      \* st.session_state.generated_link is non-empty
    ss_max_pages,        \* st.session_state.max_pages
    ui_op,               \* history: what the last script run handled
    handed,              \* history: the driver the last ZhilianScraper was given
    crawl_result         \* history: how the last crawl_pages went

self == <<all_jobs, seen_jobs, page, proxy>>
store == <<tables, db_rows>>
runLocals == <<page_number, previous_job_count, data, page_jobs, idx>>
runHist == <<pages, fetched, all0>>
runEnd == <<outcome, error>>
saveLocals == <<df, table_name, row>>
saveHist == <<attempts, insert_calls, create_calls, insert_failed, rows0, listed>>
budget == <<runs, items, saves>>
session == <<page_id, page_proxy, listening, orphans>>
proxyHist == <<teardown, asked>>

solo == <<pc, call, raised, self, session, proxyHist, store, runLocals, runHist,
          runEnd, saveLocals, saveHist, budget>>

zp == <<zp_pc, zp_driver, zp_seen_jobs, max_pages, current_page, zp_all_jobs,
        raw_data, attempt, zp_raised, zp_items, tries, requested, zp_pages,
        csv_calls>>

wdm == <<wdm_pc, wdm_driver, wdm_cookies, init_retries, wdm_op, held0,
         quit_log, call_failed, wdm_ret>>

ui == <<ss_driver, zhilian_login_status, generated_link, ss_max_pages, ui_op,
        handed, crawl_result>>

\* the Zhilian dashboard: the drivers, their manager and the session state
dash == <<drv, wdm, ui>>

\* what the actions of one BossScraper leave alone
others == <<crawlers, zp, dash>>

vars == <<solo, crawlers, zp, dash>>

\* ------------------------------------------------------------ pure helpers
\* dict.get(k, d)
Get(job, k, d) == IF k \in DOMAIN job THEN job[k] ELSE d

\* parse_jobs: the job_info dict built from one jobList element
JobInfo(job) ==
    [position_name |-> Get(job, "jobName", ""),
     salary |-> Get(job, "salaryDesc", ""),
     work_exp |-> Get(job, "jobExperience", ""),
     education |-> Get(job, "jobDegree", ""),
     work_city |-> Get(job, "cityName", ""),
     company_name |-> Get(job, "brandName", ""),
     company_size |-> Get(job, "brandScaleName", ""),
     industry |-> Get(job, "brandIndustry", ""),
     welfare |-> Get(job, "welfareList", <<>>),
     job_summary |-> Get(job, "skills", <<>>)]

\* parse_jobs(data): the list of job_info, or the TypeError Python raises on
\* `'jobList' in None` and on `for job in None`
parse_jobs(d) ==
    IF d.zpData = "absent" THEN [raised |-> FALSE, jobs |-> <<>>]
    ELSE IF d.zpData = "null" THEN [raised |-> TRUE, jobs |-> <<>>]
    ELSE IF d.jobList = "absent" THEN [raised |-> FALSE, jobs |-> <<>>]
    ELSE IF d.jobList = "null" THEN [raised |-> TRUE, jobs |-> <<>>]
    ELSE [raised |-> FALSE,
          jobs |-> [i \in 1..Len(d.items) |-> JobInfo(d.items[i])]]

\* faulty variant: the key is the title alone
KeyOfTitle(job) == <<Get(job, "position_name", ""), "">>

\* run(): key = (job.get('position_name', ''), job.get('company_name', ''))
KeyOf(job) == <<Get(job, "position_name", ""), Get(job, "company_name", "")>>

\* `key not in self.seen_jobs` hashes the key: TypeError on a list inside it
Hashable(key) == key[1] # UNHASHABLE /\ key[2] # UNHASHABLE

\* faulty variant: the key is never added to the seen set
AddJobNoSeen(all, seen, job) ==
    IF <<job.position_name, job.company_name>> \notin seen
    THEN [all |-> Append(all, job), seen |-> seen]
    ELSE [all |-> all, seen |-> seen]

\* faulty variant: the record is appended whether or not its key was seen
AddJobAlways(all, seen, job) ==
    [all |-> Append(all, job),
     seen |-> seen \cup {<<job.position_name, job.company_name>>}]

\* faulty variant: the new record is put in front of the list
AddJobFront(all, seen, job) ==
    IF <<job.position_name, job.company_name>> \notin seen
    THEN [all |-> <<job>> \o all,
          seen |-> seen \cup {<<job.position_name, job.company_name>>}]
    ELSE [all |-> all, seen |-> seen]

\* run(): the body of `for job in page_jobs` for a hashable key
AddJob(all, seen, job) ==
    IF KeyOf(job) \notin seen
    THEN [all |-> Append(all, job), seen |-> seen \cup {KeyOf(job)}]
    ELSE [all |-> all, seen |-> seen]

\* faulty variant: a page that adds a single record counts as no growth
NoGrowthOffByOne(current, previous) == current <= previous + 1

\* faulty variant: the test is for a shrinking count, which never happens
NoGrowthNever(current, previous) == current < previous

\* faulty variant: the count is compared with zero, not with the last count
NoGrowthAtZero(current, previous) == current = 0

\* run(): `if current_job_count == previous_job_count`
NoGrowth(current, previous) == current = previous

\* faulty variant: the increment is missing, the same page is asked for again
NextPageSame(n) == n

\* faulty variant: the page number advances by two
NextPageSkips(n) == n + 2

\* run(): `page_number += 1`
NextPage(n) == n + 1

\* faulty variant: the empty-page test is missing
IsEmptyPageNever(jobs) == FALSE

\* run(): `if not page_jobs`
IsEmptyPage(jobs) == jobs = <<>>

\* faulty variant: `except TimeoutError`
CatchesTimeoutOnly(e) == e = "TimeoutError"

\* run(): `except Exception as e`, which every exception raised here matches
CatchesException(e) == TRUE

\* history only: the (title, company) pairs of a jobList as the site sent them
RawKeys(its) ==
    [i \in 1..Len(its) |-> <<Get(its[i], "jobName", ""), Get(its[i], "brandName", "")>>]

\* faulty variant: the frame is built from the last record alone
DataFrameOfLast(all) == <<all[Len(all)]>>

\* save_data(): pd.DataFrame(self.all_jobs), a row per record in list order
\* with the keys of the records as columns (every record has the same keys)
DataFrameOf(all) == [i \in 1..Len(all) |-> all[i]]

\* faulty variant: create_table is called on every save
NeedsCreateAlways(t, names) == TRUE

\* faulty variant: the emptiness test is missing
HasJobsAlways(all) == TRUE

\* save_data(): `if self.all_jobs`
HasJobs(all) == all # <<>>

\* save_to_database(): the columns read from each row to call insert_job
InsertColumns ==
    {"position_name", "company_name", "salary", "work_city", "work_exp",
     "education", "company_size", "company_type", "industry", "position_url",
     "job_summary", "welfare", "salary_count"}

\* row['...'] raises KeyError for a column the DataFrame does not have
HasColumns(r) == InsertColumns \subseteq DOMAIN r

\* faulty variant: no try/except around the insert of one row
PropagatesRowError == FALSE

\* save_to_database(): `except Exception` around the insert of one row
SwallowsRowError == TRUE

\* `if proxy_ip_port:` (and `if proxy:` in __init__): None is falsy
Truthy(d) == d # "None"

\* faulty variant: the new session is built without the proxy
ProxyOptionNone(d) == <<>>

\* lines 95-101 (and 66-74): the options the new ChromiumPage is built with,
\* co.set_proxy('http://' + d) or none
ProxyOption(d) == IF Truthy(d) THEN <<"http", d>> ELSE <<>>

\* save_to_database(): `if table_name not in db.get_table_names()`
NeedsCreate(t, names) == t \notin names

\* a row of a DataFrame that has every column insert_job is given
CompleteRow(info) ==
    info @@ [company_type |-> "", position_url |-> "", salary_count |-> 0]

CompleteRows == {CompleteRow(JobInfo(j)) : j \in {r \in RawJobs : r.jobName # UNHASHABLE /\ r.brandName = "Y"}}
IncompleteRows == {JobInfo(j) : j \in {r \in RawJobs : r.brandName = "X" /\ r.jobName # UNHASHABLE}}

\* a DataFrame has the same columns in every row
DataFrames == SeqsUpTo(CompleteRows, MaxRows) \cup SeqsUpTo(IncompleteRows, MaxRows)

EmptyStore == [t \in TableNames |-> <<>>]

\* faulty variant: all_jobs and seen_jobs are class attributes, shared by all
OwnerShared(i) == 1

\* lines 78-80: all_jobs and seen_jobs are attributes of the instance, so the
\* lists instance i reads and writes are its own
Owner(i) == i

\* __init__, lines 78-80, and the locals of a run() not yet called
NewCrawler ==
    [pc |-> "idle", raised |-> "none", all_jobs |-> <<>>, seen_jobs |-> {},
     page_number |-> 0, previous_job_count |-> 0, data |-> NoData,
     page_jobs |-> <<>>, idx |-> 0, outcome |-> "none", error |-> "none",
     pages |-> <<>>, all0 |-> <<>>, got |-> 0]

\* ------------------------------------------------------------------- Init
\* __init__, lines 60-82: a live page session, both collections empty
Init ==
    /\ pc = "idle"
    /\ call = "none"
    /\ raised = "none"
    /\ all_jobs = <<>>
    /\ seen_jobs = {}
    /\ page = "live"
    /\ proxy \in Proxies
    /\ tables = {}
    /\ db_rows = EmptyStore
    /\ page_number = 0
    /\ previous_job_count = 0
    /\ data = NoData
    /\ page_jobs = <<>>
    /\ idx = 0
    /\ outcome = "none"
    /\ error = "none"
    /\ df = <<>>
    /\ table_name = ""
    /\ row = 0
    /\ runs = 0
    /\ items = 0
    /\ saves = 0
    /\ pages = <<>>
    /\ fetched = <<>>
    /\ all0 = <<>>
    /\ attempts = 0
    /\ insert_calls = 0
    /\ create_calls = 0
    /\ insert_failed = FALSE
    /\ rows0 = EmptyStore
    /\ listed = {}
    /\ page_id = 1
    /\ page_proxy = ProxyOption(proxy)
    /\ listening = TRUE
    /\ orphans = 0
    /\ teardown = "none"
    /\ asked = "none"
    /\ crawlers = [i \in Crawlers |-> NewCrawler]
    /\ zp_pc = "new"
    /\ zp_driver = "live"
    /\ zp_seen_jobs = {}
    /\ max_pages = 0
    /\ current_page = 0
    /\ zp_all_jobs = <<>>
    /\ raw_data = <<>>
    /\ attempt = 0
    /\ zp_raised = "none"
    /\ zp_items = 0
    /\ tries = <<>>
    /\ requested = <<>>
    /\ zp_pages = <<>>
    /\ csv_calls = <<>>
    /\ drv = [d \in Drivers |-> "unmade"]
    /\ wdm_pc = "idle"
    /\ wdm_driver = NoDriver
    /\ wdm_cookies = NoCookies
    /\ init_retries = 0
    /\ wdm_op = "none"
    /\ held0 = NoDriver
    /\ quit_log = <<>>
    /\ call_failed = 0
    /\ wdm_ret = NoDriver
    /\ ss_driver = NoDriver
    /\ zhilian_login_status = FALSE
    /\ generated_link = FALSE
    /\ ss_max_pages = 0
    /\ ui_op = "none"
    /\ handed = NoDriver
    /\ crawl_result = "none"

\* what a call leaves behind is forgotten when the next call begins
ForgetRun ==
    /\ page_number' = 0
    /\ previous_job_count' = 0
    /\ data' = NoData
    /\ page_jobs' = <<>>
    /\ idx' = 0
    /\ pages' = <<>>
    /\ fetched' = <<>>
    /\ all0' = <<>>

ForgetProxy == teardown' = "none" /\ asked' = "none"

ForgetSave ==
    /\ df' = <<>>
    /\ table_name' = ""
    /\ row' = 0
    /\ attempts' = 0
    /\ insert_calls' = 0
    /\ create_calls' = 0
    /\ insert_failed' = FALSE
    /\ rows0' = db_rows
    /\ listed' = {}

\* ------------------------------------------------------------------ run()
\* lines 149-151: entry of run()
Run ==
    /\ pc = "idle"
    /\ runs < MaxRuns
    /\ pc' = "fetch"
    /\ call' = "run"
    /\ raised' = "none"
    /\ page_number' = 1
    /\ previous_job_count' = 0
    /\ outcome' = "running"
    /\ error' = "none"
    /\ runs' = runs + 1
    /\ pages' = <<>>
    /\ fetched' = <<>>
    /\ all0' = all_jobs
    /\ data' = NoData
    /\ page_jobs' = <<>>
    /\ idx' = 0
    /\ ForgetSave
    /\ ForgetProxy
    /\ UNCHANGED <<self, session, store, items, saves>>
    /\ UNCHANGED others

\* faulty variant: every way out of the loop is reported as an exception
BreakAsAborted(how) ==
    /\ pc' = "idle"
    /\ outcome' = "Aborted"
    /\ error' = "none"
    /\ raised' = "none"

\* lines 156-159 and 167-169: run() breaks out of its loop and returns
Break(how) ==
    /\ pc' = "idle"
    /\ outcome' = how
    /\ error' = "none"
    /\ raised' = "none"

\* lines 172-174: the exception is caught, reported, and the loop is left
Except(e) ==
    /\ pc' = "idle"
    /\ outcome' = "Aborted"
    /\ error' = e
    /\ raised' = IF CatchesException(e) THEN "none" ELSE e

\* line 154, fetch_data: a packet arrives within the wait
FetchData ==
    /\ pc = "fetch"
    /\ page = "live"
    /\ listening
    /\ \E d \in Payloads(MaxItems - items) :
        /\ data' = d
        /\ items' = items + Len(d.items)
    /\ pc' = "parse"
    /\ fetched' = Append(fetched, page_number)
    /\ UNCHANGED <<call, raised, self, session, proxyHist, store, page_number, previous_job_count,
                   page_jobs, idx, runEnd, saveLocals, saveHist, runs, saves,
                   pages, all0>>
    /\ UNCHANGED others

\* line 154, fetch_data: listen.wait returns nothing and TimeoutError is raised
\* (line 115), or page.get raises; lines 172-174 catch either
FetchFails ==
    /\ pc = "fetch"
    /\ \E e \in {"TimeoutError", "PageError"} : Except(e)
    /\ fetched' = Append(fetched, page_number)
    /\ UNCHANGED <<call, self, session, proxyHist, store, runLocals, saveLocals, saveHist, budget,
                   pages, all0>>
    /\ UNCHANGED others

\* lines 155-159: parse_jobs, and the break on an empty page
ParseJobs ==
    /\ pc = "parse"
    /\ LET r == parse_jobs(data) IN
        IF r.raised
        THEN /\ Except("ParseError")
             /\ UNCHANGED <<pages, page_jobs, idx>>
        ELSE /\ pages' = Append(pages, RawKeys(data.items))
             /\ page_jobs' = r.jobs
             /\ IF IsEmptyPage(r.jobs)
                THEN /\ Break("Exhausted")
                     /\ idx' = idx
                ELSE /\ idx' = 1
                     /\ pc' = "dedup"
                     /\ UNCHANGED <<runEnd, raised>>
    /\ UNCHANGED <<call, self, session, proxyHist, store, page_number, previous_job_count, data,
                   saveLocals, saveHist, budget, fetched, all0>>
    /\ UNCHANGED others

\* lines 160-164: one iteration of `for job in page_jobs`
DedupJob ==
    /\ pc = "dedup"
    /\ idx <= Len(page_jobs)
    /\ LET job == page_jobs[idx] IN
        IF ~Hashable(KeyOf(job))
        THEN /\ Except("UnhashableKey")
             /\ UNCHANGED <<all_jobs, seen_jobs, idx>>
        ELSE /\ all_jobs' = AddJob(all_jobs, seen_jobs, job).all
             /\ seen_jobs' = AddJob(all_jobs, seen_jobs, job).seen
             /\ idx' = idx + 1
             /\ UNCHANGED <<pc, runEnd, raised>>
    /\ UNCHANGED <<call, page, proxy, session, proxyHist, store, page_number,
                   previous_job_count, data, page_jobs, saveLocals, saveHist,
                   budget, runHist>>
    /\ UNCHANGED others

\* lines 165-171: the growth test after the for loop
CompareCount ==
    /\ pc = "dedup"
    /\ idx > Len(page_jobs)
    /\ LET current_job_count == Len(all_jobs) IN
        IF NoGrowth(current_job_count, previous_job_count)
        THEN /\ Break("Stalled")
             /\ UNCHANGED <<previous_job_count, page_number>>
        ELSE /\ previous_job_count' = current_job_count
             /\ page_number' = NextPage(page_number)
             /\ pc' = "fetch"
             /\ UNCHANGED <<runEnd, raised>>
    /\ UNCHANGED <<call, self, session, proxyHist, store, data, page_jobs, idx, saveLocals,
                   saveHist, budget, runHist>>
    /\ UNCHANGED others

\* ------------------------------------------------------------- save_data()
\* lines 191-195: save_data(table_name)
SaveData(t) ==
    /\ pc = "idle"
    /\ call' = "save_data"
    /\ raised' = "none"
    /\ ForgetRun
    /\ table_name' = t
    /\ row' = 0
    /\ attempts' = 0
    /\ insert_calls' = 0
    /\ create_calls' = 0
    /\ insert_failed' = FALSE
    /\ rows0' = db_rows
    /\ listed' = {}
    /\ IF HasJobs(all_jobs)
       THEN /\ df' = DataFrameOf(all_jobs)
            /\ pc' = "save_table"
       ELSE /\ df' = <<>>
            /\ pc' = "idle"
    /\ ForgetProxy
    /\ UNCHANGED <<self, session, store, runEnd, budget>>
    /\ UNCHANGED others

\* save_to_database(df, table_name) called with a DataFrame of the caller's
SaveToDatabase(t, d) ==
    /\ pc = "idle"
    /\ saves < MaxSaves
    /\ saves' = saves + 1
    /\ call' = "save_to_database"
    /\ raised' = "none"
    /\ ForgetRun
    /\ table_name' = t
    /\ row' = 0
    /\ attempts' = 0
    /\ insert_calls' = 0
    /\ create_calls' = 0
    /\ insert_failed' = FALSE
    /\ rows0' = db_rows
    /\ listed' = {}
    /\ df' = d
    /\ pc' = "save_table"
    /\ ForgetProxy
    /\ UNCHANGED <<self, session, store, runEnd, runs, items>>
    /\ UNCHANGED others

\* lines 18-22: get_table_names() answers the tables, or [] when listing
\* fails; create_table may raise, and nothing in save_data catches that
EnsureTable ==
    /\ pc = "save_table"
    /\ \E names \in {tables, {}} :
        /\ listed' = names
        /\ IF NeedsCreate(table_name, names)
           THEN /\ create_calls' = create_calls + 1
                /\ \E ok \in BOOLEAN :
                    IF ok
                    THEN /\ tables' = tables \cup {table_name}
                         /\ pc' = "save_rows"
                         /\ row' = 1
                         /\ raised' = raised
                    ELSE /\ tables' = tables
                         /\ pc' = "idle"
                         /\ row' = row
                         /\ raised' = "CreateError"
           ELSE /\ pc' = "save_rows"
                /\ row' = 1
                /\ UNCHANGED <<tables, create_calls, raised>>
    /\ UNCHANGED <<call, self, session, proxyHist, db_rows, runLocals, runHist, runEnd, df,
                   table_name, attempts, insert_calls, insert_failed, rows0,
                   budget>>
    /\ UNCHANGED others

\* lines 25-48: one iteration of `for _, row in df.iterrows()`
SaveRow ==
    /\ pc = "save_rows"
    /\ row <= Len(df)
    /\ attempts' = attempts + 1
    /\ LET r == df[row] IN
        \E ok \in BOOLEAN :
            LET called == HasColumns(r)
                inserted == called /\ ok /\ table_name \in tables
            IN  /\ insert_calls' = IF called THEN insert_calls + 1 ELSE insert_calls
                /\ insert_failed' = (insert_failed \/ (called /\ ~inserted))
                /\ db_rows' = IF inserted
                              THEN [db_rows EXCEPT ![table_name] = Append(@, r)]
                              ELSE db_rows
                /\ IF inserted \/ SwallowsRowError
                   THEN /\ row' = row + 1
                        /\ UNCHANGED <<pc, raised>>
                   ELSE /\ row' = row
                        /\ pc' = "idle"
                        /\ raised' = "RowError"
    /\ UNCHANGED <<call, self, session, proxyHist, tables, runLocals, runHist, runEnd, df,
                   table_name, create_calls, rows0, listed, budget>>
    /\ UNCHANGED others

\* the loop over df is over: save_to_database and save_data return
SaveReturn ==
    /\ pc = "save_rows"
    /\ row > Len(df)
    /\ pc' = "idle"
    /\ UNCHANGED <<call, raised, self, session, proxyHist, store, runLocals, runHist, runEnd,
                   saveLocals, saveHist, budget>>
    /\ UNCHANGED others

\* ------------------------------------------------------ set_proxy(), quit()
\* lines 89-102: page.quit(), whose failure is swallowed and may leave the old
\* session alive; self.proxy; a new ChromiumPage, whose construction may
\* raise; listen.start on the new session, which may raise
SetProxy(d) ==
    /\ pc = "idle"
    /\ page_id < MaxSessions
    /\ call' = "set_proxy"
    /\ ForgetRun
    /\ ForgetSave
    /\ proxy' = d
    /\ asked' = d
    /\ \E quit_ok \in BOOLEAN, new_ok \in BOOLEAN, listen_ok \in BOOLEAN :
        \E old \in (IF quit_ok THEN {"quit"} ELSE {page, "quit"}) :
            /\ teardown' = IF quit_ok THEN "ok" ELSE "failed"
            /\ IF new_ok
               THEN /\ page' = "live"
                    /\ page_id' = page_id + 1
                    /\ page_proxy' = ProxyOption(d)
                    /\ orphans' = IF old = "live" THEN orphans + 1 ELSE orphans
                    /\ listening' = listen_ok
                    /\ raised' = IF listen_ok THEN "none" ELSE "ListenError"
               ELSE /\ page' = old
                    /\ raised' = "PageInitError"
                    /\ UNCHANGED <<page_id, page_proxy, orphans, listening>>
    /\ UNCHANGED <<pc, all_jobs, seen_jobs, store, runEnd, budget>>
    /\ UNCHANGED others

\* line 201: self.page.quit(), which may raise
Quit ==
    /\ pc = "idle"
    /\ call' = "quit"
    /\ ForgetRun
    /\ ForgetSave
    /\ \E ok \in BOOLEAN :
        IF ok
        THEN /\ page' = "quit"
             /\ raised' = "none"
        ELSE /\ page' = page
             /\ raised' = "QuitError"
    /\ ForgetProxy
    /\ UNCHANGED <<pc, all_jobs, seen_jobs, proxy, session, store, runEnd, budget>>
    /\ UNCHANGED others

\* ------------------------------------------- run() of instance i among several
\* lines 149-151: entry of run() on instance i, which runs once
RunOf(i) ==
    /\ crawlers[i].pc = "idle"
    /\ crawlers[i].outcome = "none"
    /\ crawlers' = [crawlers EXCEPT ![i] =
            [@ EXCEPT !.pc = "fetch", !.raised = "none", !.page_number = 1,
                      !.previous_job_count = 0, !.data = NoData,
                      !.page_jobs = <<>>, !.idx = 0, !.outcome = "running",
                      !.error = "none", !.pages = <<>>,
                      !.all0 = crawlers[Owner(i)].all_jobs]]
    /\ UNCHANGED <<solo, zp, dash>>

\* line 154, fetch_data on the session of instance i: a packet arrives
FetchDataOf(i) ==
    /\ crawlers[i].pc = "fetch"
    /\ \E d \in Payloads(MaxPairItems - crawlers[i].got) :
        crawlers' = [crawlers EXCEPT ![i] =
            [@ EXCEPT !.pc = "parse", !.data = d, !.got = @ + Len(d.items)]]
    /\ UNCHANGED <<solo, zp, dash>>

\* line 154, fetch_data raises; lines 172-174 catch it
FetchFailsOf(i) ==
    /\ crawlers[i].pc = "fetch"
    /\ \E e \in {"TimeoutError", "PageError"} :
        crawlers' = [crawlers EXCEPT ![i] =
            [@ EXCEPT !.pc = "idle", !.outcome = "Aborted", !.error = e,
                      !.raised = IF CatchesException(e) THEN "none" ELSE e]]
    /\ UNCHANGED <<solo, zp, dash>>

\* lines 155-159: parse_jobs, and the break on an empty page; data is not
\* read again once it is parsed
ParseJobsOf(i) ==
    /\ crawlers[i].pc = "parse"
    /\ LET c == crawlers[i]
           r == parse_jobs(c.data)
       IN  crawlers' = [crawlers EXCEPT ![i] =
            IF r.raised
            THEN [c EXCEPT !.pc = "idle", !.outcome = "Aborted",
                           !.error = "ParseError", !.data = NoData,
                           !.raised = IF CatchesException("ParseError")
                                      THEN "none" ELSE "ParseError"]
            ELSE IF IsEmptyPage(r.jobs)
            THEN [c EXCEPT !.pc = "idle", !.outcome = "Exhausted",
                           !.data = NoData, !.page_jobs = r.jobs,
                           !.pages = Append(@, RawKeys(c.data.items))]
            ELSE [c EXCEPT !.pc = "dedup", !.idx = 1, !.data = NoData,
                           !.page_jobs = r.jobs,
                           !.pages = Append(@, RawKeys(c.data.items))]]
    /\ UNCHANGED <<solo, zp, dash>>

\* lines 160-164: one iteration of `for job in page_jobs` on instance i
DedupJobOf(i) ==
    /\ crawlers[i].pc = "dedup"
    /\ crawlers[i].idx <= Len(crawlers[i].page_jobs)
    /\ LET job == crawlers[i].page_jobs[crawlers[i].idx]
           o == Owner(i)
           added == AddJob(crawlers[o].all_jobs, crawlers[o].seen_jobs, job)
       IN  crawlers' =
            IF ~Hashable(KeyOf(job))
            THEN [crawlers EXCEPT ![i].pc = "idle", ![i].outcome = "Aborted",
                                  ![i].error = "UnhashableKey",
                                  ![i].raised =
                                      IF CatchesException("UnhashableKey")
                                      THEN "none" ELSE "UnhashableKey"]
            ELSE [crawlers EXCEPT ![o].all_jobs = added.all,
                                  ![o].seen_jobs = added.seen,
                                  ![i].idx = @ + 1]
    /\ UNCHANGED <<solo, zp, dash>>

\* lines 165-171: the growth test after the for loop on instance i
CompareCountOf(i) ==
    /\ crawlers[i].pc = "dedup"
    /\ crawlers[i].idx > Len(crawlers[i].page_jobs)
    /\ LET c == crawlers[i]
           current_job_count == Len(crawlers[Owner(i)].all_jobs)
       IN  crawlers' = [crawlers EXCEPT ![i] =
            IF NoGrowth(current_job_count, c.previous_job_count)
            THEN [c EXCEPT !.pc = "idle", !.outcome = "Stalled"]
            ELSE [c EXCEPT !.pc = "fetch",
                           !.previous_job_count = current_job_count,
                           !.page_number = NextPage(c.page_number)]]
    /\ UNCHANGED <<solo, zp, dash>>

\* ------------------------------------------- BossZPCrawler (r1_boss_data.py)
\* r1_boss_data.py line 30: self.retry_max
retry_max == 3

\* elements of zpData.jobList as BossZPCrawler reads them: two postings with
\* one encryptJobId, a third posting, one with an empty id and one without
ZpJobs ==
    {[encryptJobId |-> "j1", jobName |-> "A"],
     [encryptJobId |-> "j1", jobName |-> "B"],
     [encryptJobId |-> "j2", jobName |-> "A"],
     [encryptJobId |-> "", jobName |-> "C"],
     [jobName |-> "D"]}

\* how one attempt of _fetch_page_data can go wrong without leaving the loop
Retried == {"captcha", "WebDriverException", "JSONDecodeError"}

\* faulty variant: one attempt too many
MoreAttemptsInclusive(n) == n <= retry_max

\* _fetch_page_data(): `for _ in range(self.retry_max)` has an iteration left
MoreAttempts(n) == n < retry_max

\* faulty variant: the test for a missing id is left out
CollectsUnseen(job_id, seen) == job_id \notin seen

\* _process_job_data(): the negation of `not job_id or job_id in self.seen_jobs`
Collects(job_id, seen) == job_id \notin {"None", ""} /\ job_id \notin seen

\* _process_job_data(): the row appended for a job (the collection time, the
\* last column, is left out)
ZpRow(job, job_id) ==
    <<Get(job, "jobName", ""), Get(job, "brandName", ""),
      Get(job, "bossName", ""), Get(job, "salaryDesc", ""),
      Get(job, "jobExperience", ""), Get(job, "jobDegree", ""),
      Get(job, "cityName", ""), Get(job, "areaDistrict", ""),
      Get(job, "infoDesc", ""), Get(job, "companyTagList", ""),
      Get(job, "tagList", ""), <<"job_detail", job_id>>>>

\* _process_job_data(raw, seen): the rows kept and the ids seen afterwards
RECURSIVE ProcessJobData(_, _)
ProcessJobData(raw, seen) ==
    IF raw = <<>> THEN [clean |-> <<>>, seen |-> seen]
    ELSE LET job == Head(raw)
             job_id == Get(job, "encryptJobId", "None")
         IN  IF Collects(job_id, seen)
             THEN LET rest == ProcessJobData(Tail(raw), seen \cup {job_id})
                  IN  [clean |-> <<ZpRow(job, job_id)>> \o rest.clean,
                       seen |-> rest.seen]
             ELSE ProcessJobData(Tail(raw), seen)

\* lines 205-210: execute_crawl(max_pages) begins
ExecuteCrawl(mp) ==
    /\ zp_pc = "new"
    /\ zp_pc' = "loop"
    /\ max_pages' = mp
    /\ current_page' = 1
    /\ zp_all_jobs' = <<>>
    /\ UNCHANGED <<zp_driver, zp_seen_jobs, raw_data, attempt, zp_raised,
                   zp_items, tries, requested, zp_pages, csv_calls>>
    /\ UNCHANGED <<solo, crawlers, dash>>

\* lines 212-214: the while test, and the call of _fetch_page_data
WhileTest ==
    /\ zp_pc = "loop"
    /\ IF current_page <= max_pages
       THEN /\ zp_pc' = "fetch"
            /\ attempt' = 0
            /\ tries' = <<>>
            /\ requested' = Append(requested, current_page)
       ELSE /\ zp_pc' = "save"
            /\ UNCHANGED <<attempt, tries, requested>>
    /\ UNCHANGED <<zp_driver, zp_seen_jobs, max_pages, current_page,
                   zp_all_jobs, raw_data, zp_raised, zp_items, zp_pages,
                   csv_calls>>
    /\ UNCHANGED <<solo, crawlers, dash>>

\* lines 135-172: one iteration of the for loop that is caught or `continue`d
FetchRetried ==
    /\ zp_pc = "fetch"
    /\ MoreAttempts(attempt)
    /\ attempt' = attempt + 1
    /\ \E how \in Retried : tries' = Append(tries, how)
    /\ UNCHANGED <<zp_pc, zp_driver, zp_seen_jobs, max_pages, current_page,
                   zp_all_jobs, raw_data, zp_raised, zp_items, requested,
                   zp_pages, csv_calls>>
    /\ UNCHANGED <<solo, crawlers, dash>>

\* lines 159-165: the response is parsed and its jobList returned
FetchReturns ==
    /\ zp_pc = "fetch"
    /\ MoreAttempts(attempt)
    /\ attempt' = attempt + 1
    /\ tries' = Append(tries, "jobList")
    /\ \E jobs \in SeqsUpTo(ZpJobs, MaxZpItems - zp_items) :
        /\ raw_data' = jobs
        /\ zp_items' = zp_items + Len(jobs)
        /\ zp_pages' = Append(zp_pages, jobs)
    /\ zp_pc' = "returned"
    /\ UNCHANGED <<zp_driver, zp_seen_jobs, max_pages, current_page,
                   zp_all_jobs, zp_raised, requested, csv_calls>>
    /\ UNCHANGED <<solo, crawlers, dash>>

\* lines 162-165: code 37 raises Exception, a response without zpData or
\* jobList raises KeyError or TypeError; neither except clause matches, and
\* execute_crawl has no handler
FetchRaises ==
    /\ zp_pc = "fetch"
    /\ MoreAttempts(attempt)
    /\ attempt' = attempt + 1
    /\ \E e \in {"code37", "KeyError"} :
        /\ tries' = Append(tries, e)
        /\ zp_raised' = e
    /\ zp_pc' = "raised"
    /\ UNCHANGED <<zp_driver, zp_seen_jobs, max_pages, current_page,
                   zp_all_jobs, raw_data, zp_items, requested, zp_pages,
                   csv_calls>>
    /\ UNCHANGED <<solo, crawlers, dash>>

\* line 173: the attempts are used up, [] is returned
FetchGivesUp ==
    /\ zp_pc = "fetch"
    /\ ~MoreAttempts(attempt)
    /\ raw_data' = <<>>
    /\ zp_pc' = "returned"
    /\ UNCHANGED <<zp_driver, zp_seen_jobs, max_pages, current_page,
                   zp_all_jobs, attempt, zp_raised, zp_items, tries,
                   requested, zp_pages, csv_calls>>
    /\ UNCHANGED <<solo, crawlers, dash>>

\* lines 216-225: break on no data, or process the page and go to the next
PageDone ==
    /\ zp_pc = "returned"
    /\ IF raw_data = <<>>
       THEN /\ zp_pc' = "save"
            /\ UNCHANGED <<zp_seen_jobs, zp_all_jobs, current_page>>
       ELSE LET r == ProcessJobData(raw_data, zp_seen_jobs) IN
            /\ zp_seen_jobs' = r.seen
            /\ zp_all_jobs' = zp_all_jobs \o r.clean
            /\ current_page' = current_page + 1
            /\ zp_pc' = "loop"
    /\ UNCHANGED <<zp_driver, max_pages, raw_data, attempt, zp_raised,
                   zp_items, tries, requested, zp_pages, csv_calls>>
    /\ UNCHANGED <<solo, crawlers, dash>>

\* lines 228-229: _save_to_csv(all_jobs), which may fail to write its file,
\* then driver.quit()
SaveAndQuit ==
    /\ zp_pc = "save"
    /\ csv_calls' = Append(csv_calls, zp_all_jobs)
    /\ \E written \in BOOLEAN :
        IF written \/ zp_all_jobs = <<>>
        THEN /\ zp_driver' = "quit"
             /\ zp_pc' = "done"
             /\ UNCHANGED zp_raised
        ELSE /\ zp_raised' = "OSError"
             /\ zp_pc' = "raised"
             /\ UNCHANGED zp_driver
    /\ UNCHANGED <<zp_seen_jobs, max_pages, current_page, zp_all_jobs,
                   raw_data, attempt, zp_items, tries, requested, zp_pages>>
    /\ UNCHANGED <<solo, crawlers, dash>>

\* ----------------------------------------------------------- specifications
\* the life of one BossScraper as the dashboard drives it: run(), save_data()
\* and quit(), which it calls in this order but which are callable in any
Next ==
    \/ Run
    \/ FetchData
    \/ FetchFails
    \/ ParseJobs
    \/ DedupJob
    \/ CompareCount
    \/ \E t \in UiTables : SaveData(t)
    \/ EnsureTable
    \/ SaveRow
    \/ SaveReturn
    \/ Quit

Spec == Init /\ [][Next]_vars

\* the life of one BossScraper whose caller also switches proxies
NextSession ==
    \/ Run
    \/ FetchData
    \/ FetchFails
    \/ ParseJobs
    \/ DedupJob
    \/ CompareCount
    \/ \E t \in UiTables : SaveData(t)
    \/ EnsureTable
    \/ SaveRow
    \/ SaveReturn
    \/ \E d \in Proxies : SetProxy(d)
    \/ Quit

SpecSession == Init /\ [][NextSession]_vars

\* save_to_database driven directly, with DataFrames of either shape
NextDb ==
    \/ \E t \in TableNames, d \in DataFrames : SaveToDatabase(t, d)
    \/ EnsureTable
    \/ SaveRow
    \/ SaveReturn

SpecDb == Init /\ [][NextDb]_vars

\* two BossScraper instances whose run() calls are interleaved step by step
NextPair ==
    \E i \in Crawlers :
        \/ RunOf(i)
        \/ FetchDataOf(i)
        \/ FetchFailsOf(i)
        \/ ParseJobsOf(i)
        \/ DedupJobOf(i)
        \/ CompareCountOf(i)

\* both instances are built without a proxy
InitPair == Init /\ proxy = "None"

SpecPair == InitPair /\ [][NextPair]_vars

\* one BossZPCrawler and its execute_crawl(max_pages)
NextZp ==
    \/ \E mp \in 0..MaxZpPages : ExecuteCrawl(mp)
    \/ WhileTest
    \/ FetchRetried
    \/ FetchReturns
    \/ FetchRaises
    \/ FetchGivesUp
    \/ PageDone
    \/ SaveAndQuit

\* no BossScraper takes part
InitZp == Init /\ proxy = "None"

SpecZp == InitZp /\ [][NextZp]_vars

\* ======================================================================
\* WebDriverManager, ZhilianScraper and the Zhilian dashboard flow
\* (llm_crawler/pages/o1_zhilian_ui.py). drv is the state of every WebDriver
\* instance there is: the browser of a "live" one runs, that of a "quit" one
\* has ended.
\* ======================================================================
max_retries == 3

\* faulty variant: the setter quits whatever driver is held
QuitsOldAlways(held, d) == held # NoDriver

\* driver setter, line 130: if self._driver and self._driver != driver
QuitsOld(held, d) == held # NoDriver /\ held # d

\* the drivers after d.quit() went as q says
AfterQuit(dv, d, q) ==
    IF q \in {"ok", "raised_closed"} THEN [dv EXCEPT ![d] = "quit"] ELSE dv

\* driver setter, lines 130-134: the old driver is quit inside try/except
\* Exception: pass, so however the quit goes the setter carries on
SetterDrv(dv, held, d, q) ==
    IF QuitsOld(held, d) THEN AfterQuit(dv, held, q) ELSE dv

\* the quit() calls the setter makes
SetterLog(held, d) == IF QuitsOld(held, d) THEN <<held>> ELSE <<>>

\* a driver its caller brings: one launched for the purpose, or an older one
Brought(dv, d) == IF dv[d] = "unmade" THEN [dv EXCEPT ![d] = "live"] ELSE dv

\* init_driver, line 158: while self.init_retries < self.max_retries
MayAttempt(n) == n < max_retries

\* wdm.driver = d, by a caller of the class (lines 282 and 694 are such)
SetDriver(d, q) ==
    /\ wdm_pc = "idle"
    /\ drv' = SetterDrv(Brought(drv, d), wdm_driver, d, q)
    /\ quit_log' = SetterLog(wdm_driver, d)
    /\ wdm_driver' = d
    /\ wdm_op' = "setter"
    /\ held0' = wdm_driver
    /\ UNCHANGED <<wdm_pc, wdm_cookies, init_retries, call_failed, wdm_ret>>
    /\ UNCHANGED <<solo, crawlers, zp, ui>>

\* save_cookies(), lines 137-140: get_cookies() of a driver whose browser has
\* ended raises, and that of a live one may
SaveCookies(ok) ==
    /\ wdm_pc = "idle"
    /\ wdm_cookies' =
         IF wdm_driver # NoDriver /\ ok /\ drv[wdm_driver] = "live"
         THEN <<wdm_driver>> ELSE wdm_cookies
    /\ wdm_op' = "save_cookies"
    /\ held0' = wdm_driver
    /\ quit_log' = <<>>
    /\ UNCHANGED <<drv, wdm_pc, wdm_driver, init_retries, call_failed, wdm_ret>>
    /\ UNCHANGED <<solo, crawlers, zp, ui>>

\* quit(), lines 179-188: self.driver.quit() inside try/except, then in the
\* finally clause self.driver = None goes through the setter, which finds a
\* driver held that is not None and quits it once more
WdmQuit(q1, q2) ==
    /\ wdm_pc = "idle"
    /\ IF wdm_driver # NoDriver
       THEN /\ drv' = SetterDrv(AfterQuit(drv, wdm_driver, q1), wdm_driver,
                                NoDriver, q2)
            /\ quit_log' = <<wdm_driver>> \o SetterLog(wdm_driver, NoDriver)
            /\ wdm_driver' = NoDriver
            /\ wdm_cookies' = NoCookies
       ELSE /\ quit_log' = <<>>
            /\ UNCHANGED <<drv, wdm_driver, wdm_cookies>>
    /\ wdm_op' = "quit"
    /\ held0' = wdm_driver
    /\ UNCHANGED <<wdm_pc, init_retries, call_failed, wdm_ret>>
    /\ UNCHANGED <<solo, crawlers, zp, ui>>

\* init_driver() is called, lines 153-157
InitDriver ==
    /\ wdm_pc = "idle"
    /\ wdm_pc' = "init"
    /\ wdm_op' = "init_driver"
    /\ held0' = wdm_driver
    /\ quit_log' = <<>>
    /\ call_failed' = 0
    /\ wdm_ret' = NoDriver
    /\ UNCHANGED <<drv, wdm_driver, wdm_cookies, init_retries>>
    /\ UNCHANGED <<solo, crawlers, zp, ui>>

\* lines 159-170: webdriver.Chrome() and set_window_size succeed, the driver
\* is assigned through the setter and returned
AttemptSucceeds(d, q) ==
    /\ wdm_pc = "init"
    /\ MayAttempt(init_retries)
    /\ drv[d] = "unmade"
    /\ drv' = SetterDrv(Brought(drv, d), wdm_driver, d, q)
    /\ quit_log' = SetterLog(wdm_driver, d)
    /\ wdm_driver' = d
    /\ wdm_ret' = d
    /\ wdm_pc' = "idle"
    /\ UNCHANGED <<wdm_cookies, init_retries, wdm_op, held0, call_failed>>
    /\ UNCHANGED <<solo, crawlers, zp, ui>>

\* lines 172-174: webdriver.Chrome() raises, or it launches a browser and
\* set_window_size raises, which leaves that browser running and unheld
AttemptFails(launched) ==
    /\ wdm_pc = "init"
    /\ MayAttempt(init_retries)
    /\ IF launched
       THEN \E d \in Drivers : drv[d] = "unmade" /\ drv' = Brought(drv, d)
       ELSE UNCHANGED drv
    /\ init_retries' = init_retries + 1
    /\ call_failed' = call_failed + 1
    /\ UNCHANGED <<wdm_pc, wdm_driver, wdm_cookies, wdm_op, held0, quit_log,
                   wdm_ret>>
    /\ UNCHANGED <<solo, crawlers, zp, ui>>

\* lines 176-177: the loop condition is false, return None
InitGivesUp ==
    /\ wdm_pc = "init"
    /\ ~MayAttempt(init_retries)
    /\ wdm_ret' = NoDriver
    /\ wdm_pc' = "idle"
    /\ UNCHANGED <<drv, wdm_driver, wdm_cookies, init_retries, wdm_op, held0,
                   quit_log, call_failed>>
    /\ UNCHANGED <<solo, crawlers, zp, ui>>

\* one WebDriverManager and the calls made on it
NextWdm ==
    \/ \E d \in Drivers, q \in QuitOutcomes : SetDriver(d, q)
    \/ \E ok \in BOOLEAN : SaveCookies(ok)
    \/ \E q1, q2 \in QuitOutcomes : WdmQuit(q1, q2)
    \/ InitDriver
    \/ \E d \in Drivers, q \in QuitOutcomes : AttemptSucceeds(d, q)
    \/ \E launched \in BOOLEAN : AttemptFails(launched)
    \/ InitGivesUp

\* no BossScraper takes part
InitWdm == Init /\ proxy = "None"

SpecWdm == InitWdm /\ [][NextWdm]_vars

\* ---------------------------------------------------------------------
\* The dashboard. Streamlit runs main() anew for every interaction: lines
\* 690-694 build a new WebDriverManager and give it st.session_state.driver,
\* then the sidebar and the search form handle what was clicked. An action
\* is one such script run; wdm_driver and wdm_cookies are the manager's
\* fields when the run ends.
\* ---------------------------------------------------------------------

\* ZhilianScraper.quit(), lines 230-239: the driver it was given is quit,
\* and only the scraper's own reference is cleared
ScraperQuit(dv, d, q) == IF d # NoDriver THEN AfterQuit(dv, d, q) ELSE dv

\* crawl_pages -> cache_all_page with existing_driver: should_quit stays
\* False, driver.get raises when the browser has ended, and crawl_pages
\* logs whatever is raised
CrawlResults(dv, d) == IF dv[d] = "live" THEN {"done", "failed"} ELSE {"failed"}

\* render_sidebar, lines 266-288: the login form is submitted
Login(res, q, ok) ==
    /\ ~zhilian_login_status
    /\ res \in {"driver", "None", "raised"}
    /\ IF res = "driver"
       THEN \E d \in Drivers :
              /\ drv[d] = "unmade"
              /\ zhilian_login_status' = TRUE
              /\ drv' = SetterDrv(Brought(drv, d), ss_driver, d, q)
              /\ quit_log' = SetterLog(ss_driver, d)
              /\ wdm_driver' = d
              /\ ss_driver' = d
              /\ wdm_cookies' = IF ok THEN <<d>> ELSE NoCookies
       ELSE /\ wdm_driver' = ss_driver
            /\ wdm_cookies' = NoCookies
            /\ quit_log' = <<>>
            /\ UNCHANGED <<drv, ss_driver, zhilian_login_status>>
    /\ ui_op' = "login"
    /\ held0' = ss_driver
    /\ UNCHANGED <<wdm_pc, init_retries, wdm_op, call_failed, wdm_ret>>
    /\ UNCHANGED <<generated_link, ss_max_pages, handed, crawl_result>>
    /\ UNCHANGED <<solo, crawlers, zp>>

\* render_sidebar, lines 289-294: wdm.quit(), the status is cleared and the
\* script is run again, which hands st.session_state.driver to a new manager
Logout(q1, q2) ==
    /\ zhilian_login_status
    /\ IF ss_driver # NoDriver
       THEN /\ drv' = SetterDrv(AfterQuit(drv, ss_driver, q1), ss_driver,
                                NoDriver, q2)
            /\ quit_log' = <<ss_driver>> \o SetterLog(ss_driver, NoDriver)
       ELSE /\ quit_log' = <<>>
            /\ UNCHANGED drv
    /\ zhilian_login_status' = FALSE
    /\ wdm_driver' = ss_driver
    /\ wdm_cookies' = NoCookies
    /\ ui_op' = "logout"
    /\ held0' = ss_driver
    /\ UNCHANGED <<wdm_pc, init_retries, wdm_op, call_failed, wdm_ret>>
    /\ UNCHANGED <<ss_driver, generated_link, ss_max_pages, handed, crawl_result>>
    /\ UNCHANGED <<solo, crawlers, zp>>

\* render_zhilian_search_form, lines 397-413: the search form is submitted;
\* generate_zhilian_url always gives a link, and get_total_pages uses the
\* manager's driver without quitting it. When a page count mp is found it
\* is stored; when none is (always so once the browser has ended) the run
\* stops at line 408 or in int() on line 411 and max_pages stays
GenerateLink(mp, found) ==
    /\ zhilian_login_status
    /\ generated_link' = TRUE
    /\ ss_max_pages' = IF ss_driver # NoDriver /\ found /\ drv[ss_driver] = "live"
                       THEN mp ELSE ss_max_pages
    /\ wdm_driver' = ss_driver
    /\ wdm_cookies' = NoCookies
    /\ ui_op' = "link"
    /\ held0' = ss_driver
    /\ quit_log' = <<>>
    /\ UNCHANGED <<drv, wdm_pc, init_retries, wdm_op, call_failed, wdm_ret>>
    /\ UNCHANGED <<ss_driver, zhilian_login_status, handed, crawl_result>>
    /\ UNCHANGED <<solo, crawlers, zp>>

\* render_zhilian_search_form, lines 416-457: "start crawl" is clicked with
\* page_crawl typed in (-1 stands for text int() rejects)
StartCrawl(page_crawl, q) ==
    /\ zhilian_login_status
    /\ generated_link
    /\ ss_max_pages > 0
    /\ wdm_driver' = ss_driver
    /\ wdm_cookies' = NoCookies
    /\ held0' = ss_driver
    /\ IF page_crawl >= 1 /\ page_crawl <= ss_max_pages /\ ss_driver # NoDriver
       THEN /\ handed' = ss_driver
            /\ crawl_result' \in CrawlResults(drv, ss_driver)
            /\ drv' = ScraperQuit(drv, ss_driver, q)
            /\ quit_log' = <<ss_driver>>
            /\ ui_op' = "crawl"
       ELSE /\ ui_op' = "rejected"
            /\ quit_log' = <<>>
            /\ UNCHANGED <<drv, handed, crawl_result>>
    /\ UNCHANGED <<wdm_pc, init_retries, wdm_op, call_failed, wdm_ret>>
    /\ UNCHANGED <<ss_driver, zhilian_login_status, generated_link, ss_max_pages>>
    /\ UNCHANGED <<solo, crawlers, zp>>

\* the Zhilian side of the dashboard, one interaction after another
NextUi ==
    \/ \E res \in {"driver", "None", "raised"}, q \in QuitOutcomes,
          ok \in BOOLEAN : Login(res, q, ok)
    \/ \E q1, q2 \in QuitOutcomes : Logout(q1, q2)
    \/ \E mp \in 0..MaxUiPages, found \in BOOLEAN : GenerateLink(mp, found)
    \/ \E page_crawl \in -1..(MaxUiPages + 1), q \in QuitOutcomes :
          StartCrawl(page_crawl, q)

\* initialize_session_state, lines 607-636
InitUi == Init /\ proxy = "None"

SpecUi == InitUi /\ [][NextUi]_vars
\* ------------------------------------------------- vocabulary of the claims
Range(s) == {s[i] : i \in DOMAIN s}

RECURSIVE Flatten(_)
Flatten(ps) == IF ps = <<>> THEN <<>> ELSE Head(ps) \o Flatten(Tail(ps))

\* the distinct elements of s in order of first occurrence
RECURSIVE FirstOcc(_)
FirstOcc(s) ==
    IF s = <<>> THEN <<>>
    ELSE LET r == FirstOcc(SubSeq(s, 1, Len(s) - 1))
         IN  IF s[Len(s)] \in Range(r) THEN r ELSE Append(r, s[Len(s)])

RECURSIVE SumDistinct(_)
SumDistinct(ps) ==
    IF ps = <<>> THEN 0 ELSE Cardinality(Range(Head(ps))) + SumDistinct(Tail(ps))

RecKey(rec) == <<rec.position_name, rec.company_name>>
RecKeys(all) == [i \in 1..Len(all) |-> RecKey(all[i])]

\* the keys of the pages parsed before page k of this run
PriorKeys(k) == UNION {Range(pages[i]) : i \in 1..(k - 1)}

AllStrings(keys) == \A i \in 1..Len(keys) : keys[i][1] # UNHASHABLE
FullOverlap(k) == pages[k] # <<>> /\ Range(pages[k]) \subseteq PriorKeys(k)
HasNewKey(k) == \E key \in Range(pages[k]) : key \notin PriorKeys(k)

\* the first run() of a BossScraper, in progress or just over
FreshRun == call = "run" /\ runs = 1
RunOver == call = "run" /\ pc = "idle"

KeyAX == <<"A", "X">>
KeyBY == <<"B", "Y">>
KeyAY == <<"A", "Y">>

C2_StallAfterOverlap ==
    FreshRun =>
        /\ \A k \in 1..Len(pages) :
            FullOverlap(k) =>
                /\ k = Len(pages)
                /\ page_number = k
                /\ Len(fetched) = k
                /\ pc \in {"dedup", "idle"}
                /\ pc = "idle" => outcome = "Stalled"
        /\ outcome = "Stalled" => (Len(pages) >= 2 /\ FullOverlap(Len(pages)))
        /\ (pc = "idle" /\ pages = <<<<KeyAX>>, <<KeyAX>>>>) =>
                (outcome = "Stalled" /\ Len(all_jobs) = 1 /\ page_number = 2)

C2_Witness ==
    /\ FreshRun
    /\ pc = "idle"
    /\ pages = <<<<KeyAX>>, <<KeyAX>>>>
    /\ outcome = "Stalled"
    /\ fetched = <<1, 2>>

\* C3: on a fresh BossScraper a page of string keys with at least one key not
\* seen on earlier pages does not end the run: the next page is fetched. The
\* run ends at the first empty page, Exhausted, with all_jobs the distinct keys
\* of the pages in order of first occurrence; pages [(A,X),(B,Y)],
\* [(B,Y),(A,Y)], [] give [(A,X),(B,Y),(A,Y)] and stop at page 3.
C3_ProgressOnNewKey ==
    FreshRun =>
        /\ \A k \in 1..Len(pages) :
            (HasNewKey(k) /\ AllStrings(pages[k])) =>
                (pc = "idle" => Len(fetched) > k)
        /\ (Len(pages) >= 1 /\ pages[Len(pages)] = <<>>) =>
            /\ pc = "idle"
            /\ outcome = "Exhausted"
            /\ page_number = Len(pages)
            /\ Len(fetched) = Len(pages)
            /\ \A k \in 1..(Len(pages) - 1) : pages[k] # <<>>
            /\ RecKeys(all_jobs) = FirstOcc(Flatten(pages))
        /\ pages = <<<<KeyAX, KeyBY>>, <<KeyBY, KeyAY>>, <<>>>> =>
            (RecKeys(all_jobs) = <<KeyAX, KeyBY, KeyAY>> /\ page_number = 3)

C3_Witness ==
    /\ FreshRun
    /\ pc = "idle"
    /\ outcome = "Exhausted"
    /\ pages = <<<<KeyAX, KeyBY>>, <<KeyBY, KeyAY>>, <<>>>>
    /\ fetched = <<1, 2, 3>>

\* C4: when parse_jobs is given a well-formed payload whose jobList is empty,
\* run() stops there: it ends Exhausted without raising, fetches nothing more
\* and leaves all_jobs and seen_jobs as they were.
C4_EmptyPageExhausts ==
    [][(/\ pc = "parse"
        /\ data.zpData = "object"
        /\ data.jobList = "list"
        /\ data.items = <<>>)
       => (/\ pc' = "idle"
           /\ outcome' = "Exhausted"
           /\ raised' = "none"
           /\ error' = "none"
           /\ fetched' = fetched
           /\ all_jobs' = all_jobs
           /\ seen_jobs' = seen_jobs)]_vars

C4_Witness ==
    /\ RunOver
    /\ outcome = "Exhausted"
    /\ data = [zpData |-> "object", jobList |-> "list", items |-> <<>>]
    /\ page_number = 2
    /\ Len(all_jobs) = 2

\* C5: on a fresh BossScraper, non-empty pages with pairwise disjoint key sets
\* followed by an empty page leave len(all_jobs) equal to the sum over the
\* pages of the number of distinct keys of each page.
C5_DisjointPagesSum ==
    (/\ FreshRun
     /\ Len(pages) >= 1
     /\ pages[Len(pages)] = <<>>
     /\ \A k \in 1..(Len(pages) - 1) : pages[k] # <<>>
     /\ \A k, m \in 1..Len(pages) :
            k # m => Range(pages[k]) \cap Range(pages[m]) = {})
    => Len(all_jobs) = SumDistinct(pages)

\* the same title at two companies, on two pages, and a repeat inside a page
C5_Witness ==
    /\ FreshRun
    /\ pc = "idle"
    /\ pages = <<<<KeyAX, KeyAX>>, <<KeyAY>>, <<>>>>
    /\ Len(all_jobs) = 2

\* C6: the step of run() that processes a record whose key is already in
\* seen_jobs changes neither all_jobs nor seen_jobs, so the record kept for a
\* key is its first occurrence.
C6_DuplicateIgnored ==
    [][(/\ pc = "dedup"
        /\ idx <= Len(page_jobs)
        /\ RecKey(page_jobs[idx]) \in seen_jobs)
       => (all_jobs' = all_jobs /\ seen_jobs' = seen_jobs)]_vars

\* a repeat of an earlier page's key and a repeat inside the page, both skipped
C6_Witness ==
    /\ pc = "dedup"
    /\ pages = <<<<KeyAX>>, <<KeyAX, KeyBY, KeyBY>>>>
    /\ idx = 4
    /\ RecKeys(all_jobs) = <<KeyAX, KeyBY>>

BeforeUnhashable(keys) ==
    SubSeq(keys, 1,
           (CHOOSE i \in 1..Len(keys) :
                /\ keys[i][1] = UNHASHABLE
                /\ \A j \in 1..(i - 1) : keys[j][1] # UNHASHABLE) - 1)

C8_SaveInsertsEveryRecord ==
    (/\ call = "save_data"
     /\ pc = "idle"
     /\ raised = "none"
     /\ Len(all_jobs) >= 1
     /\ ~insert_failed)
    => /\ insert_calls = Len(all_jobs)
       /\ RecKeys(db_rows[table_name]) =
            RecKeys(rows0[table_name]) \o RecKeys(all_jobs)

\* C9: save_data on an empty all_jobs returns at once, without raising, having
\* called neither create_table nor insert_job.
C9_EmptySaveSkips ==
    (call = "save_data" /\ all_jobs = <<>>) =>
        /\ pc = "idle"
        /\ raised = "none"
        /\ df = <<>>
        /\ attempts = 0
        /\ insert_calls = 0
        /\ create_calls = 0
        /\ db_rows = rows0

\* save_data after a run() whose first fetch failed
C9_Witness ==
    /\ call = "save_data"
    /\ all_jobs = <<>>
    /\ runs = 1
    /\ outcome = "Aborted"
    /\ tables = {}

IsPrefix(s, t) == Len(s) <= Len(t) /\ SubSeq(t, 1, Len(s)) = s

\* C10: in the loop of save_to_database the failure of one row is swallowed:
\* no row failure is propagated, every row of the DataFrame is attempted
\* whatever happened to the rows before it (with insert_job called for each
\* row that has the columns), the rows already inserted stay, and the call
\* returns normally.
C10_RowFailureSwallowed ==
    call \in {"save_data", "save_to_database"} =>
        /\ raised \in {"none", "CreateError"}
        /\ pc = "save_rows" => (attempts = row - 1 /\ row <= Len(df) + 1)
        /\ (pc = "idle" /\ raised = "none") =>
            /\ attempts = Len(df)
            /\ (\A i \in 1..Len(df) : HasColumns(df[i])) => insert_calls = Len(df)
        /\ \A t \in TableNames : IsPrefix(rows0[t], db_rows[t])
        /\ Len(db_rows[table_name]) <= Len(rows0[table_name]) + insert_calls

\* the insert of row 1 failed, row 2 was inserted after it, and the row of an
\* earlier save is still there
C10_Witness ==
    /\ call = "save_to_database"
    /\ pc = "idle"
    /\ Len(df) = 2
    /\ df[1] # df[2]
    /\ insert_failed
    /\ insert_calls = 2
    /\ rows0[table_name] # <<>>
    /\ db_rows[table_name] = Append(rows0[table_name], df[2])

\* a payload with JSON structure that lacks zpData or a jobList list
MissingFields(d) == d.zpData # "object" \/ d.jobList # "list"

\* C11: when the payload handed to parse_jobs lacks the expected fields (no
\* zpData, zpData null, no jobList, jobList null), parse_jobs returns an empty
\* list without raising and run() ends Exhausted, not Aborted.
C11_MalformedIsEmptyPage ==
    [][(pc = "parse" /\ MissingFields(data))
       => (/\ pc' = "idle"
           /\ outcome' = "Exhausted"
           /\ error' = "none"
           /\ raised' = "none"
           /\ page_jobs' = <<>>)]_vars

\* page k of this run is non-empty and every key of it was accumulated before
AddsNothing(k) ==
    /\ pages[k] # <<>>
    /\ Range(pages[k]) \subseteq (Range(RecKeys(all0)) \cup PriorKeys(k))

\* C12: in every run(), the first run of a BossScraper or a later one, the
\* first non-empty page that adds no new record is the last page fetched and
\* the run ends Stalled at it.
C12_StallsAtFirstRepeat ==
    call = "run" =>
        \A k \in 1..Len(pages) :
            AddsNothing(k) =>
                /\ k = Len(pages)
                /\ Len(fetched) = k
                /\ pc \in {"dedup", "idle"}
                /\ pc = "idle" => outcome = "Stalled"

\* C13: within one run() the page numbers passed to fetch_data are 1, 2, 3,
\* ... in this order, each once: the page being processed is the last one
\* fetched, the next fetch asks for the page after it, and a fetch that failed
\* ends the run at that page instead of being repeated.
C13_PagesInOrderOnce ==
    call = "run" =>
        /\ \A i \in 1..Len(fetched) : fetched[i] = i
        /\ pc = "fetch" => Len(fetched) = page_number - 1
        /\ pc # "fetch" => Len(fetched) = page_number
        /\ Len(pages) <= Len(fetched)
        /\ error \in {"TimeoutError", "PageError"} =>
            (pc = "idle" /\ Len(pages) = Len(fetched) - 1)

\* the fetch of page 3 timed out and the run ended there
C13_Witness ==
    /\ RunOver
    /\ fetched = <<1, 2, 3>>
    /\ Len(pages) = 2
    /\ error = "TimeoutError"

RunStep == FetchData \/ FetchFails \/ ParseJobs \/ DedupJob \/ CompareCount

\* C14: a run() that has returned ended in exactly one of Exhausted (its last
\* page was empty), Stalled (its last page added nothing to the count) and
\* Aborted (an exception was caught), propagating nothing; no step of the run
\* can follow, and save_data can: it builds its DataFrame from exactly the
\* records accumulated and attempts each row once.
C14_ThreeTerminalOutcomes ==
    /\ (call = "run" /\ pc # "idle") => outcome = "running"
    /\ RunOver =>
        /\ outcome \in {"Exhausted", "Stalled", "Aborted"}
        /\ raised = "none"
        /\ outcome = "Aborted" <=> error # "none"
        /\ outcome = "Exhausted" <=>
            (/\ error = "none"
             /\ Len(pages) >= 1
             /\ pages[Len(pages)] = <<>>)
        /\ outcome = "Stalled" <=>
            (/\ error = "none"
             /\ Len(pages) >= 1
             /\ pages[Len(pages)] # <<>>
             /\ Len(all_jobs) = previous_job_count)
        /\ ~ENABLED RunStep
        /\ ENABLED (\E t \in UiTables : SaveData(t))
    /\ call = "save_data" =>
        /\ outcome \in {"none", "Exhausted", "Stalled", "Aborted"}
        /\ HasJobs(all_jobs) => df = all_jobs
        /\ (pc = "idle" /\ raised = "none") => attempts = Len(all_jobs)

\* save_data after a Stalled run, in the middle of its two rows
C14_Witness ==
    /\ call = "save_data"
    /\ outcome = "Stalled"
    /\ pc = "save_rows"
    /\ row = 2
    /\ Len(df) = 2
    /\ df = all_jobs

\* the live page sessions this BossScraper has built
LiveSessions == orphans + (IF page = "live" THEN 1 ELSE 0)

\* C15: in no reachable state do two live page sessions built by the same
\* BossScraper coexist: set_proxy releases the old session before it builds
\* the new one, also when the old session's quit() or the construction fails.
C15_OneLiveSession == LiveSessions <= 1

\* this BossScraper can still fetch: its session is live and listening
Usable == page = "live" /\ listening

\* C16: when page.quit() of the old session or the construction of the new
\* one fails in set_proxy, set_proxy does not return normally, and the
\* BossScraper cannot fetch afterwards.
C16_ReconfigFailureSurfaced ==
    call = "set_proxy" =>
        /\ teardown = "failed" => raised # "none"
        /\ raised # "none" => ~Usable

\* C17: quit() never raises, whatever the state it is called in.
C17_QuitNeverRaises == call = "quit" => raised = "none"

\* C18: a set_proxy(d) that returns normally leaves self.proxy = d and
\* self.page a session built by this call, live, configured with the proxy d
\* (or with none when d is empty) and with its listener started; the packets
\* of a following run() arrive on that session.
C18_ProxyAppliedOnReturn ==
    [][/\ (call' = "set_proxy" /\ raised' = "none") =>
            /\ proxy' = asked'
            /\ page_id' = page_id + 1
            /\ page' = "live"
            /\ listening'
            /\ page_proxy' =
                (IF asked' = "None" THEN <<>> ELSE <<"http", asked'>>)
       /\ (call' = "run" /\ Len(fetched') > Len(pages')) =>
            (pc' = "parse" => (page' = "live" /\ listening'))]_vars

\* page 1 of a run() arrived through the session a set_proxy built with a proxy
C18_Witness ==
    /\ call = "run"
    /\ pc = "parse"
    /\ fetched = <<1>>
    /\ page_id = 2
    /\ proxy = "10.0.0.1:8080"
    /\ page_proxy = <<"http", "10.0.0.1:8080">>
    /\ orphans = 0

\* C19: all_jobs only grows at its end and seen_jobs only grows: every step
\* leaves the old all_jobs a prefix of the new one and the old seen_jobs a
\* subset of the new one, a step of save_data, set_proxy or quit changes
\* neither, and during a run() all_jobs extends what it held at the call.
C19_AppendOnly ==
    [][/\ IsPrefix(all_jobs, all_jobs')
       /\ seen_jobs \subseteq seen_jobs'
       /\ call' # "run" => (all_jobs' = all_jobs /\ seen_jobs' = seen_jobs)
       /\ call' = "run" => IsPrefix(all0', all_jobs')]_vars

\* a second run(), after a save_data and a set_proxy, adds to the first one's record
C19_Witness ==
    /\ runs = 2
    /\ page_id = 2
    /\ tables # {}
    /\ pc = "dedup"
    /\ Len(all0) = 1
    /\ Len(all_jobs) = 2
    /\ SubSeq(all_jobs, 1, 1) = all0

\* the keys instance c has gone through in its run(), in order: its parsed
\* pages, the one being de-duplicated (or cut short by an unhashable key) only
\* up to the record it has reached
KeysDone(c) ==
    IF c.pages = <<>> THEN <<>>
    ELSE IF c.pc = "dedup" \/ c.error = "UnhashableKey"
    THEN Flatten(SubSeq(c.pages, 1, Len(c.pages) - 1))
            \o SubSeq(c.pages[Len(c.pages)], 1, c.idx - 1)
    ELSE Flatten(c.pages)

\* what the instance holds is what its own pages alone produce
AsAlone(c) ==
    /\ RecKeys(c.all_jobs) = FirstOcc(KeysDone(c))
    /\ c.seen_jobs = Range(FirstOcc(KeysDone(c)))
    /\ c.pc \in {"fetch", "parse"} => c.page_number = Len(c.pages) + 1
    /\ c.pc = "dedup" => c.page_number = Len(c.pages)

\* C20: when the run() calls of two BossScraper instances are interleaved
\* step by step, every step changes the state (all_jobs, seen_jobs, page
\* counter and the other locals) of one instance only, and at every moment
\* each instance holds exactly the de-duplicated records of its own pages, as
\* if it ran alone.
C20_CrawlersIndependent ==
    [][/\ \E i \in Crawlers :
            \A j \in Crawlers \ {i} : crawlers'[j] = crawlers[j]
       /\ \A i \in Crawlers : AsAlone(crawlers'[i])]_vars

\* both instances are in the middle of a run(); each met (A,X) on its page 1
\* and kept it, and the first has met it again on its page 2
C20_Witness ==
    /\ crawlers[1].pc = "dedup"
    /\ crawlers[2].pc = "dedup"
    /\ crawlers[1].pages = <<<<KeyAX>>, <<KeyAX>>>>
    /\ crawlers[1].idx = 2
    /\ crawlers[2].pages = <<<<KeyAX>>>>
    /\ crawlers[2].idx = 2
    /\ RecKeys(crawlers[1].all_jobs) = <<KeyAX>>
    /\ RecKeys(crawlers[2].all_jobs) = <<KeyAX>>

\* the hashable keys the site can deliver: the finite set K
SiteKeys == {k \in {RawKeys(<<j>>)[1] : j \in RawJobs} : k[1] # UNHASHABLE}

\* C21: the first run() of a BossScraper needs no page cap: every page after
\* which the loop went on brought a key not seen before, so the pages passed
\* number at most len(all_jobs), and at most |K| + 1 pages are fetched, K being
\* the keys the site can deliver; the run then ends Exhausted, Stalled or
\* Aborted.
C21_PagesBoundedByKeys ==
    FreshRun =>
        /\ \A k \in 1..(page_number - 1) : HasNewKey(k)
        /\ page_number - 1 <= Len(all_jobs)
        /\ Len(all_jobs) <= Cardinality(SiteKeys)
        /\ Len(fetched) <= Cardinality(SiteKeys) + 1
        /\ pc = "idle" => outcome \in {"Exhausted", "Stalled", "Aborted"}

\* every key of K arrived on a page of its own, and page |K| + 1 ended the run
C21_Witness ==
    /\ FreshRun
    /\ pc = "idle"
    /\ Len(fetched) = Cardinality(SiteKeys) + 1
    /\ Len(all_jobs) = Cardinality(SiteKeys)
    /\ outcome = "Stalled"

\* the save in progress or just over has gone past lines 21-22
PastEnsure ==
    \/ pc = "save_rows"
    \/ pc = "idle" /\ (call = "save_to_database" \/ df # <<>>)

\* C22: in a save the table is ensured before any row is attempted:
\* create_table is called once exactly when the table name is not in what
\* get_table_names() answered (the tables, or nothing when listing failed),
\* never otherwise, and every row attempt and insert_job call comes after
\* that, none when create_table raised.
C22_TableEnsuredFirst ==
    call \in {"save_data", "save_to_database"} =>
        /\ pc = "save_table" =>
            (attempts = 0 /\ insert_calls = 0 /\ create_calls = 0)
        /\ PastEnsure =>
            /\ listed \in {{}, tables, tables \ {table_name}}
            /\ create_calls = (IF table_name \notin listed THEN 1 ELSE 0)
        /\ (attempts > 0 \/ insert_calls > 0) =>
            (PastEnsure /\ raised # "CreateError")
        /\ raised = "CreateError" => (create_calls = 1 /\ attempts = 0)

\* listing failed on a save to a table that has rows: create_table was called
\* all the same, and the two rows were inserted after it
C22_Witness ==
    /\ call = "save_to_database"
    /\ pc = "idle"
    /\ rows0[table_name] # <<>>
    /\ listed = {}
    /\ create_calls = 1
    /\ insert_calls = 2
    /\ Len(db_rows[table_name]) = Len(rows0[table_name]) + 2

C24_CountersTrackProgress ==
    FreshRun =>
        /\ pc = "fetch" =>
            /\ previous_job_count = Len(all_jobs)
            /\ page_number =
                1 + Cardinality({k \in 1..Len(pages) : HasNewKey(k)})
        /\ outcome = "Stalled" => page_number > 1
        /\ (Len(pages) = 1 /\ pages[1] # <<>> /\ pc = "idle") =>
            outcome = "Aborted"

\* page 3 is about to be fetched after two pages that added three records
C24_Witness ==
    /\ FreshRun
    /\ pc = "fetch"
    /\ page_number = 3
    /\ previous_job_count = 3
    /\ RecKeys(all_jobs) = <<KeyAX, KeyBY, KeyAY>>

\* every attempt so far for this page was caught or `continue`d
AllRetried == \A i \in 1..Len(tries) : tries[i] \in Retried

\* C25: _fetch_page_data makes at most retry_max attempts for a page; a
\* captcha, a WebDriverException and a JSON decode failure use up one attempt
\* each; the jobList of the first attempt that succeeds is returned at once,
\* and [] is returned when retry_max attempts were used up.
C25_AtMostRetryMaxAttempts ==
    /\ attempt = Len(tries)
    /\ attempt <= retry_max
    /\ \A i \in 1..(Len(tries) - 1) : tries[i] \in Retried
    /\ zp_pc = "fetch" => AllRetried
    /\ zp_pc = "returned" =>
        \/ /\ Len(tries) >= 1
           /\ tries[Len(tries)] = "jobList"
           /\ raw_data = zp_pages[Len(zp_pages)]
        \/ /\ Len(tries) = retry_max
           /\ AllRetried
           /\ raw_data = <<>>

\* page 2: a captcha, a driver exception and a bad JSON used up the attempts
C25_Witness ==
    /\ zp_pc = "returned"
    /\ current_page = 2
    /\ tries = <<"captcha", "WebDriverException", "JSONDecodeError">>
    /\ raw_data = <<>>
    /\ Len(zp_all_jobs) = 1

\* C26: however execute_crawl ends once crawling has started (page limit, a
\* page without data, code 37 or a payload without zpData/jobList), the rows
\* collected were passed to _save_to_csv and the driver was quit.
C26_EveryEndSavesAndQuits ==
    zp_pc \in {"done", "raised"} =>
        (csv_calls = <<zp_all_jobs>> /\ zp_driver = "quit")

\* the ids _process_job_data accepts, in the order of the jobs
RECURSIVE KeptIds(_)
KeptIds(jobs) ==
    IF jobs = <<>> THEN <<>>
    ELSE IF "encryptJobId" \in DOMAIN Head(jobs) /\ Head(jobs).encryptJobId # ""
    THEN <<Head(jobs).encryptJobId>> \o KeptIds(Tail(jobs))
    ELSE KeptIds(Tail(jobs))

\* the id a collected row was built from (its job_detail link)
RowIds(rows) == [i \in 1..Len(rows) |-> rows[i][12][2]]

\* the pages execute_crawl has processed: all that had a jobList, but the one
\* just returned
Processed ==
    IF zp_pc = "returned" /\ tries # <<>> /\ tries[Len(tries)] = "jobList"
    THEN SubSeq(zp_pages, 1, Len(zp_pages) - 1)
    ELSE zp_pages

\* C27: execute_crawl(max_pages) asks for pages 1, 2, ..., k in order, k <=
\* max_pages; it ends normally only at the page limit or at a page whose fetch
\* gave no data, so not at a page whose records are all duplicates, after
\* which the page number advances as after any other; the rows collected are
\* one per encryptJobId, the first of each, and none for a record without id.
C27_PagesInOrderRowsUnique ==
    /\ requested = [i \in 1..Len(requested) |-> i]
    /\ Len(requested) <= max_pages
    /\ zp_pc = "done" => (raw_data = <<>> \/ Len(requested) = max_pages)
    /\ \A k \in 1..Len(Processed) :
        Processed[k] = <<>> => (k = Len(Processed) /\ zp_pc \in {"save", "done", "raised"})
    /\ zp_pc = "loop" => current_page = Len(Processed) + 1
    /\ RowIds(zp_all_jobs) = FirstOcc(KeptIds(Flatten(Processed)))
    /\ \A i, j \in 1..Len(zp_all_jobs) :
        i # j => RowIds(zp_all_jobs)[i] # RowIds(zp_all_jobs)[j]
    /\ \A i \in 1..Len(zp_all_jobs) : RowIds(zp_all_jobs)[i] \notin {"", "None"}

\* page 2 held only a posting whose id page 1 had delivered, and page 3 was
\* asked for all the same
C27_Witness ==
    /\ requested = <<1, 2, 3>>
    /\ Len(zp_pages) >= 2
    /\ RowIds(zp_all_jobs) = <<"j1">>
    /\ KeptIds(zp_pages[2]) = <<"j1">>
    /\ zp_pc = "fetch"

\* C28: WebDriverManager holds one driver at a time. Assigning a different
\* driver through the setter (directly or from init_driver) calls quit() on
\* the driver held before, once, and the new driver is held however that
\* quit went; assigning the driver already held calls no quit() and leaves
\* it as it was; after quit() the held driver and the cookies are both None.
C28_SetterQuitsOldOnly ==
    [][/\ \A d \in Drivers :
            (\E q \in QuitOutcomes : SetDriver(d, q) \/ AttemptSucceeds(d, q))
            => /\ wdm_driver' = d
               /\ (wdm_driver # NoDriver /\ wdm_driver # d)
                    => /\ quit_log' = <<wdm_driver>>
                       /\ drv'[wdm_driver] \in {drv[wdm_driver], "quit"}
               /\ wdm_driver = d
                    => /\ quit_log' = <<>>
                       /\ drv'[d] = drv[d]
               /\ \A o \in Drivers \ {wdm_driver, d} :
                      drv'[o] = drv[o]
       /\ (\E q1, q2 \in QuitOutcomes : WdmQuit(q1, q2))
            => /\ wdm_driver' = NoDriver
               /\ wdm_cookies' = NoCookies
               /\ \A o \in Drivers \ {wdm_driver} : drv'[o] = drv[o]]_vars

\* a second driver was assigned, the quit() of the first one raised and
\* left its browser running, and the second is held
C28_Witness ==
    /\ wdm_op = "setter"
    /\ wdm_pc = "idle"
    /\ held0 # NoDriver
    /\ held0 # wdm_driver
    /\ quit_log = <<held0>>
    /\ drv[held0] = "live"
    /\ drv[wdm_driver] = "live"

\* C29: within every init_driver call another attempt is made as long as
\* fewer than 3 attempts of that call have failed and none has succeeded,
\* and a call that returned None made 3 failed attempts itself.
C29_NoneOnlyAfterThreeOwnFailures ==
    /\ (wdm_pc = "init" /\ call_failed < 3) => MayAttempt(init_retries)
    /\ (wdm_op = "init_driver" /\ wdm_pc = "idle" /\ wdm_ret = NoDriver)
         => call_failed = 3

\* C30: in the dashboard, while the status says logged in, the driver the
\* manager holds has not been quit, and the driver a crawl was run with is
\* still live once that crawl has finished.
C30_HeldDriverStaysLive ==
    /\ (zhilian_login_status /\ wdm_driver # NoDriver)
         => drv[wdm_driver] # "quit"
    /\ (zhilian_login_status /\ ui_op = "crawl") => drv[handed] = "live"

====
